---- MODULE Spec2Model ----
(***************************************************************************)
(* Model of the platform shim of julius-sdl3:                              *)
(*   src/src/platform/sound_device.c  (audio device, channels, music,      *)
(*                                     custom PCM music player)            *)
(*   src/src/platform/mouse.c         (relative mouse mode)                *)
(* The mixer / SDL library is modelled only by the state the shim can      *)
(* observe or leak: which music, chunk and stream objects are alive, which *)
(* channels play, which music hook is installed, the relative-motion       *)
(* accumulator.                                                            *)
(***************************************************************************)
EXTENDS Integers, FiniteSets, Sequences, TLC

(***************************************************************************)
(* Program constants and model bounds                                      *)
(***************************************************************************)
MAX_CHANNELS == 150

\* Total number of music objects / chunks / audio streams the library will
\* ever hand out; once exhausted every further load or create fails (NULL).
MaxMusic == 2
MaxChunks == 2
MaxStreams == 2
\* Number of mix buffers malloc can have outstanding before it returns NULL.
MaxMixBuffers == 2
\* Capacity (in bytes) of the custom audio stream's queue in the model.
MaxStreamBytes == 2
\* Length of the sequences of public calls explored where all of them are mixed.
MaxCalls == 3
\* Mouse positions are floats, modelled in halves: 0 .. MaxPos halves.
MaxPos == 2

NULL == 0
\* A null `const char *` (file names are strings in the model).
NullName == "(null)"

\* Channel numbers the callers use (first and last slot of the table).
ChannelInputs == {0, MAX_CHANNELS - 1}
\* num_channels arguments of sound_device_init_channels.
NumChannelsInputs == {-1, 0, 1, MAX_CHANNELS, MAX_CHANNELS + 1}
\* File names: "" is the empty string, "a" stands for any non-empty name.
FileNames == {"", "a"}
\* filenames[][] tables handed to sound_device_init_channels.
FilenameTables == {[i \in 0..MAX_CHANNELS |-> "a"], [i \in 0..MAX_CHANNELS |-> ""]}

Slots == 0..(MAX_CHANNELS - 1)

VARIABLES
    data,           \* sound_device.c: { initialized, music, channels[] }
    custom_music,   \* sound_device.c: { format, dst_format, stream }
    nMusic,         \* mixer: number of music objects ever loaded
    liveMusic,      \* mixer: music objects loaded and not freed
    nChunks,        \* mixer: number of chunks ever loaded
    liveChunks,     \* mixer: chunks loaded and not freed
    playing,        \* mixer: channels that are playing
    musicHook,      \* mixer: the installed music hook
    nStreams,       \* SDL: number of audio streams ever created
    liveStreams,    \* SDL: audio streams created and not destroyed
    streamBytes,    \* SDL: bytes queued in the stream custom_music.stream
    mixBuffers,     \* heap: mix buffers malloc'ed and not freed
    lastCall,       \* the last public call: [op, arg, ret, alloc, written]
    calls,          \* the library functions the last public call called
    ncalls,         \* public calls made so far, where a run counts them
    mainPc,         \* main thread: where it is inside a custom-player call
    cbPc,           \* audio thread: where it is inside custom_music_callback
    streamUse,      \* audio thread: how the callback last used the stream
    mouse_data,     \* mouse.c: { x, y, enabled }
    sdlMouse,       \* SDL: mouse position (SDL_GetMouseState), in halves
    sdlRel,         \* SDL: relative motion accumulated since the last
                    \* SDL_GetRelativeMouseState, in halves
    winRelative,    \* SDL: the window's relative mouse mode
    sysCursor,      \* position last given to system_set_mouse_position
    gameMouse,      \* position last given to mouse_set_position
    scale,          \* platform_screen_get_scale()
    mouseLast,      \* the last mouse.c call: [op, arg, x, y]
    enterPos,       \* SDL mouse position when relative mode was entered
    enterScale,     \* screen scale when relative mode was entered
    mixedArgs,      \* relative mode was re-requested with another value
    movedSince,     \* motion since relative mode was entered, in halves
    firstPoll       \* no relative state was read since it was entered

sndVars == <<data, nMusic, liveMusic, nChunks, liveChunks, playing>>
custVars == <<custom_music, musicHook, nStreams, liveStreams, streamBytes,
              mixBuffers>>
ghostVars == <<lastCall, calls>>
concVars == <<mainPc, cbPc, streamUse>>
mouseVars == <<mouse_data, sdlMouse, sdlRel, winRelative, sysCursor, gameMouse,
               scale, mouseLast, enterPos, enterScale, mixedArgs, movedSince,
               firstPoll>>
vars == <<sndVars, custVars, ghostVars, ncalls, concVars, mouseVars>>
\* What the operations of each part leave alone.
restSnd == <<custVars, concVars, mouseVars>>
restCust == <<sndVars, concVars, mouseVars>>
restConc == <<sndVars, ghostVars, mouseVars>>
restMouse == <<sndVars, custVars, ghostVars, concVars>>

\* alloc is the argument given to Mix_AllocateChannels and written the set
\* of channel-table slots assigned, for a call that does either.
Call(op, arg, ret) ==
    [op |-> op, arg |-> arg, ret |-> ret, alloc |-> 0, written |-> {}]

Min(a, b) == IF a < b THEN a ELSE b

(***************************************************************************)
(* sound_device.c : device, channels, music                                *)
(***************************************************************************)

\* static init_channels(): data.initialized = 1 and every chunk field zeroed.
init_channels(d) ==
    [d EXCEPT !.initialized = 1,
              !.channels = [i \in Slots |-> [d.channels[i] EXCEPT !.chunk = NULL]]]

\* sound_device_open(): ok is the outcome of Mix_OpenAudio.
sound_device_open(ok) ==
    /\ data' = IF ok THEN init_channels(data) ELSE data
    /\ calls' = IF ok THEN {"Mix_OpenAudio"}
                      ELSE {"Mix_OpenAudio", "SDL_GetNumAudioDrivers"}
    /\ lastCall' = Call("open", 0, 0)
    /\ UNCHANGED <<nMusic, liveMusic, nChunks, liveChunks, playing>>
    /\ UNCHANGED restSnd

\* The chunks referenced by the channel table.
TableChunks(d) == {d.channels[i].chunk : i \in Slots} \ {NULL}

\* sound_device_stop_channel(channel)
sound_device_stop_channel(channel) ==
    /\ IF data.initialized # 0 /\ data.channels[channel].chunk # NULL
         THEN /\ playing' = playing \ {channel}
              /\ liveChunks' = liveChunks \ {data.channels[channel].chunk}
              /\ data' = [data EXCEPT !.channels[channel].chunk = NULL]
              /\ calls' = {"Mix_HaltChannel", "Mix_FreeChunk"}
         ELSE /\ UNCHANGED <<playing, liveChunks, data>>
              /\ calls' = {}
    /\ lastCall' = Call("stop_channel", 0, 0)
    /\ UNCHANGED <<nMusic, liveMusic, nChunks>>
    /\ UNCHANGED restSnd

\* sound_device_close(): stops every channel, closes the mixer.
sound_device_close ==
    /\ IF data.initialized # 0
         THEN /\ liveChunks' = liveChunks \ TableChunks(data)
              /\ playing' = {}
              /\ data' = [data EXCEPT
                    !.initialized = 0,
                    !.channels = [i \in Slots |->
                                    [data.channels[i] EXCEPT !.chunk = NULL]]]
              /\ calls' = (IF TableChunks(data) # {}
                             THEN {"Mix_HaltChannel", "Mix_FreeChunk"} ELSE {})
                          \cup {"Mix_CloseAudio"}
         ELSE /\ UNCHANGED <<liveChunks, playing, data>>
              /\ calls' = {}
    /\ lastCall' = Call("close", 0, 0)
    /\ UNCHANGED <<nMusic, liveMusic, nChunks>>
    /\ UNCHANGED restSnd

\* sound_device_init_channels without its clamp to MAX_CHANNELS.
ClampChannelsMissing(num_channels) == num_channels

\* sound_device_init_channels(num_channels, filenames)
ClampChannels(num_channels) ==
    IF num_channels > MAX_CHANNELS THEN MAX_CHANNELS ELSE num_channels

sound_device_init_channels(num_channels, filenames) ==
    /\ IF data.initialized # 0
         THEN LET n == ClampChannels(num_channels)
                  w == 0..(n - 1)
              IN /\ playing' = IF n >= 0 THEN {c \in playing : c < n} ELSE playing
                 /\ data' = [data EXCEPT !.channels =
                        [i \in Slots |->
                           IF i \in w
                             THEN [chunk |-> NULL,
                                   filename |-> IF filenames[i] # ""
                                                  THEN filenames[i] ELSE NullName]
                             ELSE data.channels[i]]]
                 /\ calls' = {"Mix_AllocateChannels"}
                 /\ lastCall' = [Call("init_channels", num_channels, 0)
                                   EXCEPT !.alloc = n, !.written = w]
         ELSE /\ UNCHANGED <<playing, data>>
              /\ calls' = {}
              /\ lastCall' = Call("init_channels", num_channels, 0)
    /\ UNCHANGED <<nMusic, liveMusic, nChunks, liveChunks>>
    /\ UNCHANGED restSnd

\* load_chunk(filename): a fresh chunk, or NULL when the name is empty or
\* Mix_LoadWAV fails (ok = FALSE, or the library is out of chunks).
load_chunk(filename, ok) ==
    IF filename # "" /\ ok /\ nChunks < MaxChunks THEN nChunks + 1 ELSE NULL

\* load_channel(channel): the chunk field after the call.
load_channel(ch, ok) ==
    IF ch.chunk = NULL /\ ch.filename # NullName
      THEN load_chunk(ch.filename, ok)
      ELSE ch.chunk

\* Mix_PlayChannel(channel, chunk, 0)
MixPlayChannel(p, channel) == p \cup {channel}

\* The common body of sound_device_play_channel[_panned].
PlayLoaded(channel, ok, extraCalls) ==
    IF data.initialized # 0
      THEN LET ch == data.channels[channel]
               c == load_channel(ch, ok)
               loads == ch.chunk = NULL /\ ch.filename # NullName
           IN /\ data' = [data EXCEPT !.channels[channel].chunk = c]
              /\ nChunks' = IF c # NULL /\ c # ch.chunk THEN c ELSE nChunks
              /\ liveChunks' = IF c # NULL THEN liveChunks \cup {c} ELSE liveChunks
              /\ playing' = IF c # NULL THEN MixPlayChannel(playing, channel) ELSE playing
              /\ calls' = (IF loads THEN {"Mix_LoadWAV"} ELSE {})
                          \cup (IF c # NULL
                                  THEN extraCalls \cup {"Mix_VolumeChunk", "Mix_PlayChannel"}
                                  ELSE {})
      ELSE /\ UNCHANGED <<data, nChunks, liveChunks, playing>>
           /\ calls' = {}

\* sound_device_play_channel(channel, volume_pct)
sound_device_play_channel(channel, ok) ==
    /\ PlayLoaded(channel, ok, {})
    /\ lastCall' = Call("play_channel", 0, 0)
    /\ UNCHANGED <<nMusic, liveMusic>>
    /\ UNCHANGED restSnd

\* sound_device_play_channel_panned(channel, volume_pct, left_pct, right_pct)
sound_device_play_channel_panned(channel, ok) ==
    /\ PlayLoaded(channel, ok, {"Mix_SetPanning"})
    /\ lastCall' = Call("play_channel_panned", 0, 0)
    /\ UNCHANGED <<nMusic, liveMusic>>
    /\ UNCHANGED restSnd

\* sound_device_play_file_on_channel(filename, channel, volume_pct)
sound_device_play_file_on_channel(filename, channel, ok) ==
    /\ IF data.initialized # 0
         THEN LET old == data.channels[channel].chunk
                  c == load_chunk(filename, ok)
              IN /\ data' = [data EXCEPT !.channels[channel].chunk = c]
                 /\ nChunks' = IF c # NULL THEN c ELSE nChunks
                 /\ liveChunks' = (liveChunks \ {old})
                                   \cup (IF c # NULL THEN {c} ELSE {})
                 /\ playing' = LET halted == IF old # NULL THEN playing \ {channel}
                                                            ELSE playing
                                IN IF c # NULL THEN MixPlayChannel(halted, channel)
                                               ELSE halted
                 /\ calls' = (IF old # NULL
                                THEN {"Mix_HaltChannel", "Mix_FreeChunk"} ELSE {})
                             \cup (IF filename # "" THEN {"Mix_LoadWAV"} ELSE {})
                             \cup (IF c # NULL
                                     THEN {"Mix_VolumeChunk", "Mix_PlayChannel"}
                                     ELSE {})
         ELSE /\ UNCHANGED <<data, nChunks, liveChunks, playing>>
              /\ calls' = {}
    /\ lastCall' = Call("play_file_on_channel", 0, 0)
    /\ UNCHANGED <<nMusic, liveMusic>>
    /\ UNCHANGED restSnd

\* sound_device_stop_music()
sound_device_stop_music ==
    /\ IF data.initialized # 0 /\ data.music # NULL
         THEN /\ liveMusic' = liveMusic \ {data.music}
              /\ data' = [data EXCEPT !.music = NULL]
              /\ calls' = {"Mix_HaltMusic", "Mix_FreeMusic"}
         ELSE /\ UNCHANGED <<liveMusic, data>>
              /\ calls' = {}
    /\ lastCall' = Call("stop_music", 0, 0)
    /\ UNCHANGED <<nMusic, nChunks, liveChunks, playing>>
    /\ UNCHANGED restSnd

\* sound_device_play_music(filename, volume_pct): loadOk and playOk are the
\* outcomes of Mix_LoadMUS and Mix_PlayMusic.
sound_device_play_music(filename, loadOk, playOk) ==
    /\ IF data.initialized # 0
         THEN LET stopped == data.music # NULL
                  live0 == liveMusic \ {data.music}
                  m == IF filename # NullName /\ loadOk /\ nMusic < MaxMusic
                         THEN nMusic + 1 ELSE NULL
                  kept == IF m # NULL /\ playOk THEN m ELSE NULL
              IN /\ nMusic' = IF m # NULL THEN m ELSE nMusic
                 /\ liveMusic' = IF m # NULL THEN live0 \cup {m} ELSE live0
                 /\ data' = [data EXCEPT !.music = kept]
                 /\ calls' = (IF stopped THEN {"Mix_HaltMusic", "Mix_FreeMusic"} ELSE {})
                             \cup (IF filename # NullName THEN {"Mix_LoadMUS"} ELSE {})
                             \cup (IF m # NULL THEN {"Mix_PlayMusic"} ELSE {})
                             \cup (IF kept # NULL THEN {"Mix_VolumeMusic"} ELSE {})
                 /\ lastCall' = Call("play_music", 0, IF kept # NULL THEN 1 ELSE 0)
         ELSE /\ UNCHANGED <<nMusic, liveMusic, data>>
              /\ calls' = {}
              /\ lastCall' = Call("play_music", 0, 0)
    /\ UNCHANGED <<nChunks, liveChunks, playing>>
    /\ UNCHANGED restSnd

\* sound_device_is_channel_playing(channel)
sound_device_is_channel_playing(channel) ==
    /\ calls' = IF data.channels[channel].chunk # NULL THEN {"Mix_Playing"} ELSE {}
    /\ lastCall' = Call("is_channel_playing", 0,
                        IF data.channels[channel].chunk # NULL /\ channel \in playing
                          THEN 1 ELSE 0)
    /\ UNCHANGED <<sndVars, restSnd>>

\* sound_device_set_music_volume(volume_pct)
sound_device_set_music_volume ==
    /\ calls' = {"Mix_VolumeMusic"}
    /\ lastCall' = Call("set_music_volume", 0, 0)
    /\ UNCHANGED <<sndVars, restSnd>>

\* sound_device_set_channel_volume(channel, volume_pct)
sound_device_set_channel_volume(channel) ==
    /\ calls' = IF data.channels[channel].chunk # NULL THEN {"Mix_VolumeChunk"} ELSE {}
    /\ lastCall' = Call("set_channel_volume", 0, 0)
    /\ UNCHANGED <<sndVars, restSnd>>

(***************************************************************************)
(* sound_device.c : custom music player                                    *)
(***************************************************************************)
CUSTOM_CALLBACK == "custom_music_callback"
NO_HOOK == "none"
\* Sample formats; "?" is an indeterminate value.
AudioFormats == {"U8", "S16"}
\* bitdepth arguments of sound_device_use_custom_music_player.
BitdepthInputs == {8, 16, 24}
\* len arguments (bytes of PCM handed in, bytes the mixer asks for).
LenInputs == {0, 1, 2}
MixLenInputs == {1, 2}

\* The custom player's state and the library state it acts on, as one value.
CW == [cm |-> custom_music, hook |-> musicHook, n |-> nStreams,
       live |-> liveStreams, bytes |-> streamBytes]

SetCW(w) ==
    /\ custom_music' = w.cm
    /\ musicHook' = w.hook
    /\ nStreams' = w.n
    /\ liveStreams' = w.live
    /\ streamBytes' = w.bytes

\* SDL_DestroyAudioStream(custom_music.stream)
DestroyAudioStream(w) ==
    [w EXCEPT !.live = @ \ {w.cm.stream}, !.bytes = 0]

\* custom_music.stream = 0
ClearStream(w) == [w EXCEPT !.cm.stream = NULL]

\* free_custom_audio_stream() that forgets SDL_DestroyAudioStream.
free_custom_audio_stream_leaky(w) == ClearStream(w)

\* free_custom_audio_stream()
free_custom_audio_stream(w) ==
    IF w.cm.stream # NULL THEN ClearStream(DestroyAudioStream(w)) ELSE w

\* custom_music.dst_format = dst_format;
\* custom_music.stream = SDL_CreateAudioStream(&src_spec, &dst_spec)
CreateAudioStream(w, dst_format, ok) ==
    LET s == IF ok /\ w.n < MaxStreams THEN w.n + 1 ELSE NULL
    IN [w EXCEPT !.cm.dst_format = dst_format,
                 !.cm.stream = s,
                 !.n = IF s # NULL THEN s ELSE @,
                 !.live = IF s # NULL THEN @ \cup {s} ELSE @,
                 !.bytes = IF s # NULL THEN 0 ELSE @]

\* create_custom_audio_stream(...)
create_custom_audio_stream(w, dst_format, ok) ==
    CreateAudioStream(free_custom_audio_stream(w), dst_format, ok)

\* sound_device_write_custom_music_data / put_custom_audio_stream: the data
\* is queued unless the stream's queue cannot take it.
write_custom_music_data(w, hasData, len) ==
    IF ~hasData \/ len <= 0 \/ w.cm.stream = NULL
      THEN w
      ELSE IF w.bytes + len <= MaxStreamBytes
             THEN [w EXCEPT !.bytes = @ + len]
             ELSE w

\* Mix_HookMusic(hook, 0)
HookMusic(w, h) == [w EXCEPT !.hook = h]

\* format chosen from bitdepth; NULL when the bitdepth is not supported.
FormatOf(bitdepth) ==
    IF bitdepth = 8 THEN "U8" ELSE IF bitdepth = 16 THEN "S16" ELSE "?"

\* Mix_QuerySpec(&device_rate, &device_format, &device_channels): the output
\* arguments are set only when the device is open; otherwise device_format
\* keeps its indeterminate value.
DeviceFormats == IF data.initialized # 0 THEN {"S16"} ELSE AudioFormats \cup {"?"}

\* sound_device_use_custom_music_player(bitdepth, num_channels, rate,
\*                                      audio_data, len)
sound_device_use_custom_music_player(bitdepth, hasData, len, device_format, ok) ==
    /\ IF bitdepth # 8 /\ bitdepth # 16
         THEN /\ UNCHANGED custVars
              /\ calls' = {"log_error"}
         ELSE LET w0 == [CW EXCEPT !.cm.format = FormatOf(bitdepth)]
                  w1 == create_custom_audio_stream(w0, device_format, ok)
              IN IF w1.cm.stream = NULL
                   THEN /\ SetCW(w1)
                        /\ calls' = {"Mix_QuerySpec", "SDL_CreateAudioStream"}
                                    \cup (IF w0.cm.stream # NULL
                                            THEN {"SDL_DestroyAudioStream"} ELSE {})
                        /\ UNCHANGED mixBuffers
                   ELSE /\ SetCW(HookMusic(write_custom_music_data(w1, hasData, len),
                                           CUSTOM_CALLBACK))
                        /\ calls' = {"Mix_QuerySpec", "SDL_CreateAudioStream",
                                     "Mix_HookMusic"}
                                    \cup (IF w0.cm.stream # NULL
                                            THEN {"SDL_DestroyAudioStream"} ELSE {})
                                    \cup (IF hasData /\ len > 0
                                            THEN {"SDL_PutAudioStreamData"} ELSE {})
                        /\ UNCHANGED mixBuffers
    /\ lastCall' = Call("use_custom_music_player", bitdepth, 0)
    /\ UNCHANGED restCust

\* sound_device_write_custom_music_data(audio_data, len)
sound_device_write_custom_music_data(hasData, len) ==
    /\ SetCW(write_custom_music_data(CW, hasData, len))
    /\ calls' = IF hasData /\ len > 0 /\ custom_music.stream # NULL
                  THEN {"SDL_PutAudioStreamData"} ELSE {}
    /\ lastCall' = Call("write_custom_music_data", len, 0)
    /\ UNCHANGED <<mixBuffers, restCust>>

\* sound_device_use_default_music_player()
sound_device_use_default_music_player ==
    /\ SetCW(free_custom_audio_stream(HookMusic(CW, NO_HOOK)))
    /\ calls' = {"Mix_HookMusic"}
                \cup (IF custom_music.stream # NULL
                        THEN {"SDL_DestroyAudioStream"} ELSE {})
    /\ lastCall' = Call("use_default_music_player", 0, 0)
    /\ UNCHANGED <<mixBuffers, restCust>>

\* get_custom_audio_stream(dst, len), after its memset and its guard, for a
\* stream that is active.  got is what SDL_GetAudioStreamData returns: -1 on
\* error, else the bytes it copied.  The result is [ret, bufs (mix buffers
\* left allocated), bytes (left in the stream), called (library calls)].
MixFromStream(len, got, bufs, bytes) ==
    IF bufs >= MaxMixBuffers
      THEN [ret |-> 0, bufs |-> bufs, bytes |-> bytes,          \* malloc failed
            called |-> {"malloc"}]
      ELSE IF got <= 0
             THEN [ret |-> 0, bufs |-> bufs + 1, bytes |-> bytes,
                   called |-> {"malloc", "SDL_GetAudioStreamData"}]
             ELSE [ret |-> got, bufs |-> bufs, bytes |-> bytes - got,
                   called |-> {"malloc", "SDL_GetAudioStreamData",
                               "SDL_MixAudio", "free"}]

\* What SDL_GetAudioStreamData(stream, buf, len) can return.
StreamReads(len, bytes) == {-1, Min(len, bytes)}

\* custom_music_callback(dummy, stream, len), run by the mixer while the hook
\* is installed: get_custom_audio_stream(stream, len) as one step.
custom_music_callback(dstValid, len, got) ==
    /\ musicHook = CUSTOM_CALLBACK
    /\ IF ~dstValid \/ len <= 0 \/ custom_music.stream = NULL
         THEN /\ UNCHANGED <<streamBytes, mixBuffers>>
              /\ calls' = {"memset"}
              /\ lastCall' = Call(CUSTOM_CALLBACK, len, 0)
         ELSE LET r == MixFromStream(len, got, mixBuffers, streamBytes)
              IN /\ streamBytes' = r.bytes
                 /\ mixBuffers' = r.bufs
                 /\ calls' = {"memset"} \cup r.called
                 /\ lastCall' = Call(CUSTOM_CALLBACK, len, r.ret)
    /\ UNCHANGED <<custom_music, musicHook, nStreams, liveStreams, restCust>>

(***************************************************************************)
(* The custom music player, statement by statement: the main thread runs   *)
(* the public calls, the mixer's audio thread runs custom_music_callback.  *)
(* Mix_HookMusic takes the mixer's audio lock, which the audio thread      *)
(* holds for the whole of a callback; nothing else in this file locks.     *)
(***************************************************************************)

\* sound_device_use_custom_music_player up to the start of
\* free_custom_audio_stream.
UseCustomBegin(bitdepth) ==
    /\ mainPc = "idle"
    /\ bitdepth = 8 \/ bitdepth = 16
    /\ custom_music' = [custom_music EXCEPT !.format = FormatOf(bitdepth)]
    /\ mainPc' = IF custom_music.stream # NULL THEN "create_destroy" ELSE "create"
    /\ UNCHANGED <<musicHook, nStreams, liveStreams, streamBytes, mixBuffers,
                   cbPc, streamUse, restConc>>

\* SDL_DestroyAudioStream(custom_music.stream) in free_custom_audio_stream
DestroyStep ==
    /\ mainPc \in {"create_destroy", "default_destroy"}
    /\ SetCW(DestroyAudioStream(CW))
    /\ mainPc' = IF mainPc = "create_destroy" THEN "create_clear" ELSE "default_clear"
    /\ UNCHANGED <<mixBuffers, cbPc, streamUse, restConc>>

\* custom_music.stream = 0 in free_custom_audio_stream
ClearStep ==
    /\ mainPc \in {"create_clear", "default_clear"}
    /\ SetCW(ClearStream(CW))
    /\ mainPc' = IF mainPc = "create_clear" THEN "create" ELSE "idle"
    /\ UNCHANGED <<mixBuffers, cbPc, streamUse, restConc>>

\* The rest of create_custom_audio_stream, and the early return on failure.
CreateStep(device_format, ok) ==
    /\ mainPc = "create"
    /\ SetCW(CreateAudioStream(CW, device_format, ok))
    /\ mainPc' = IF ok /\ nStreams < MaxStreams THEN "write" ELSE "idle"
    /\ UNCHANGED <<mixBuffers, cbPc, streamUse, restConc>>

\* sound_device_write_custom_music_data, inside use_custom_music_player or
\* as a call of its own.
WriteStep(hasData, len) ==
    /\ mainPc \in {"write", "idle"}
    /\ SetCW(write_custom_music_data(CW, hasData, len))
    /\ mainPc' = IF mainPc = "write" THEN "hook" ELSE "idle"
    /\ UNCHANGED <<mixBuffers, cbPc, streamUse, restConc>>

\* Mix_HookMusic(custom_music_callback, 0)
HookStep ==
    /\ mainPc = "hook"
    /\ cbPc = "idle"
    /\ SetCW(HookMusic(CW, CUSTOM_CALLBACK))
    /\ mainPc' = "idle"
    /\ UNCHANGED <<mixBuffers, cbPc, streamUse, restConc>>

\* sound_device_use_default_music_player: Mix_HookMusic(0, 0)
UseDefaultBegin ==
    /\ mainPc = "idle"
    /\ cbPc = "idle"
    /\ SetCW(HookMusic(CW, NO_HOOK))
    /\ mainPc' = IF custom_music.stream # NULL THEN "default_destroy" ELSE "idle"
    /\ UNCHANGED <<mixBuffers, cbPc, streamUse, restConc>>

\* custom_music_callback -> get_custom_audio_stream: the memset and the
\* guard, which reads custom_music.stream.
CallbackBegin ==
    /\ cbPc = "idle"
    /\ musicHook = CUSTOM_CALLBACK
    /\ cbPc' = IF custom_music.stream # NULL THEN "checked" ELSE "idle"
    /\ streamUse' = "none"
    /\ UNCHANGED <<custVars, mainPc, restConc>>

\* get_custom_audio_stream after its guard: malloc, then
\* SDL_GetAudioStreamData(custom_music.stream, ...), which reads the field
\* again.  A destroyed stream is undefined behaviour: any result.
CallbackGet(len, got) ==
    /\ cbPc = "checked"
    /\ LET s == custom_music.stream
           r == MixFromStream(len, IF s = NULL THEN -1 ELSE got,
                              mixBuffers, streamBytes)
       IN /\ mixBuffers' = r.bufs
          /\ streamBytes' = IF s \in liveStreams THEN r.bytes ELSE streamBytes
          /\ streamUse' = IF "SDL_GetAudioStreamData" \notin r.called THEN "none"
                          ELSE IF s = NULL THEN "null"
                          ELSE IF s \in liveStreams THEN "live"
                          ELSE "destroyed"
    /\ cbPc' = "idle"
    /\ UNCHANGED <<custom_music, musicHook, nStreams, liveStreams, mainPc,
                   restConc>>

(***************************************************************************)
(* mouse.c : relative mouse mode                                           *)
(***************************************************************************)
\* (int) f for a non-negative float f given in halves.
ToIntPos(h) == h \div 2

\* enabled arguments of system_mouse_set_relative_mode.
EnabledInputs == {0, 1, 2}
\* Screen scale percentages.
Scales == {50, 100}
\* Mouse motion events, in halves (the pointer moves along a horizontal line).
Motions == {<<1, 0>>, <<-1, 0>>}
\* delta arguments of system_move_mouse_cursor.
CursorDeltas == {<<1, 0>>, <<-1, 0>>}
\* The game keeps its cursor inside the screen: 0 .. CursorMax.
CursorMax == 2 * ToIntPos(MaxPos)

\* (int) f for a float f given in halves: truncation toward zero.
ToInt(h) == IF h >= 0 THEN h \div 2 ELSE -((-h) \div 2)

\* C integer division, truncating toward zero.
CDiv(a, b) ==
    IF (a >= 0) = (b > 0) THEN (IF a >= 0 THEN a ELSE -a) \div (IF b > 0 THEN b ELSE -b)
                          ELSE -((IF a >= 0 THEN a ELSE -a) \div (IF b > 0 THEN b ELSE -b))

\* core/calc: calc_percentage(value, total)
calc_percentage(value, total) ==
    IF total # 0 THEN CDiv(100 * value, total) ELSE 0

\* core/calc: calc_adjust_with_percentage(value, percentage)
calc_adjust_with_percentage(value, percentage) ==
    CDiv(percentage * value, 100)

\* moved is the motion since relative mode was entered, for the first read
\* of the relative state after that.
\* was is data.enabled when the call was made.
MouseCall(op, arg, x, y) ==
    [op |-> op, arg |-> arg, x |-> x, y |-> y, moved |-> [x |-> 0, y |-> 0],
     was |-> mouse_data.enabled]

\* system_mouse_set_relative_mode without its early return.
SameModeIgnored(enabled) == FALSE

\* if (enabled == data.enabled) return;
SameMode(enabled) == enabled = mouse_data.enabled

\* SDL_GetRelativeMouseState: the motion accumulated since the last call,
\* which it resets.
SDL_GetRelativeMouseState(rel) == [out |-> rel, rel |-> [x |-> 0, y |-> 0]]

\* system_mouse_get_relative_state(x, y) on the accumulator rel; hasX and hasY
\* say whether the pointers are non-null.  [read, x, y, rel].
get_relative_state(hasX, hasY, rel) ==
    IF ~hasX \/ ~hasY
      THEN [read |-> FALSE, x |-> 0, y |-> 0, rel |-> rel]
      ELSE LET r == SDL_GetRelativeMouseState(rel)
           IN [read |-> TRUE, x |-> ToInt(r.out.x), y |-> ToInt(r.out.y),
               rel |-> r.rel]

\* system_mouse_get_relative_state(x, y) called by the game.
system_mouse_get_relative_state(hasX, hasY) ==
    LET r == get_relative_state(hasX, hasY, sdlRel)
    IN /\ sdlRel' = r.rel
       /\ mouseLast' =
            IF r.read /\ firstPoll /\ mouse_data.enabled # 0
              THEN [MouseCall("get_relative_state", 1, r.x, r.y)
                      EXCEPT !.moved = movedSince]
              ELSE MouseCall("get_relative_state", 0, r.x, r.y)
       /\ firstPoll' = IF r.read THEN FALSE ELSE firstPoll
       /\ movedSince' = IF r.read THEN [x |-> 0, y |-> 0] ELSE movedSince
       /\ UNCHANGED <<mouse_data, sdlMouse, winRelative, sysCursor, gameMouse,
                      scale, enterPos, enterScale, mixedArgs, restMouse>>

\* system_mouse_set_relative_mode(enabled)
system_mouse_set_relative_mode(enabled) ==
    /\ IF SameMode(enabled)
         THEN UNCHANGED <<mouse_data, winRelative, sdlRel, sysCursor, gameMouse>>
         ELSE IF enabled # 0
           THEN LET scale_percentage == calc_percentage(100, scale)
                IN /\ mouse_data' =
                        [x |-> calc_adjust_with_percentage(ToInt(sdlMouse.x),
                                                           scale_percentage),
                         y |-> calc_adjust_with_percentage(ToInt(sdlMouse.y),
                                                           scale_percentage),
                         enabled |-> enabled]
                   /\ winRelative' = TRUE
                   /\ sdlRel' = get_relative_state(FALSE, FALSE, sdlRel).rel
                   /\ UNCHANGED <<sysCursor, gameMouse>>
           ELSE /\ winRelative' = FALSE
                /\ sysCursor' = [x |-> mouse_data.x, y |-> mouse_data.y]
                /\ gameMouse' = [x |-> mouse_data.x, y |-> mouse_data.y]
                /\ mouse_data' = [mouse_data EXCEPT !.enabled = enabled]
                /\ UNCHANGED sdlRel
    /\ mouseLast' = MouseCall("set_relative_mode", enabled, 0, 0)
    \* bookkeeping for the properties
    /\ IF enabled # 0 /\ mouse_data.enabled = 0
         THEN /\ enterPos' = sdlMouse
              /\ enterScale' = scale
              /\ mixedArgs' = FALSE
              /\ movedSince' = [x |-> 0, y |-> 0]
              /\ firstPoll' = TRUE
         ELSE /\ mixedArgs' = (mixedArgs \/ (enabled # 0 /\ enabled # mouse_data.enabled))
              /\ UNCHANGED <<enterPos, enterScale, movedSince, firstPoll>>
    /\ UNCHANGED <<sdlMouse, scale, restMouse>>

\* system_move_mouse_cursor(delta_x, delta_y)
system_move_mouse_cursor(delta_x, delta_y) ==
    LET x == gameMouse.x + delta_x
        y == gameMouse.y + delta_y
    IN /\ x \in 0..CursorMax /\ y \in 0..CursorMax
       /\ sysCursor' = [x |-> x, y |-> y]
       /\ gameMouse' = [x |-> x, y |-> y]
       /\ mouseLast' = MouseCall("move_mouse_cursor", 0, 0, 0)
       /\ UNCHANGED <<mouse_data, sdlMouse, sdlRel, winRelative, scale, enterPos,
                      enterScale, mixedArgs, movedSince, firstPoll, restMouse>>

\* The user moves the mouse: SDL updates the position and accumulates the
\* relative motion.
MouseMotion(d) ==
    LET nx == sdlMouse.x + d[1]
        ny == sdlMouse.y + d[2]
        rx == sdlRel.x + d[1]
        ry == sdlRel.y + d[2]
    IN /\ nx \in 0..MaxPos /\ ny \in 0..MaxPos
       /\ sdlMouse' = [x |-> nx, y |-> ny]
       /\ sdlRel' = [x |-> rx, y |-> ry]
       /\ movedSince' = IF mouse_data.enabled # 0 /\ firstPoll
                          THEN [x |-> movedSince.x + d[1], y |-> movedSince.y + d[2]]
                          ELSE movedSince
       /\ UNCHANGED <<mouse_data, winRelative, sysCursor, gameMouse, scale,
                      mouseLast, enterPos, enterScale, mixedArgs, firstPoll,
                      restMouse>>

\* The display scale setting changes.
SetScale(s) ==
    /\ s # scale
    /\ scale' = s
    /\ UNCHANGED <<mouse_data, sdlMouse, sdlRel, winRelative, sysCursor,
                   gameMouse, mouseLast, enterPos, enterScale, mixedArgs,
                   movedSince, firstPoll, restMouse>>

(***************************************************************************)
(* Initial state and specifications                                        *)
(***************************************************************************)
Init ==
    /\ data = [initialized |-> 0, music |-> NULL,
               channels |-> [i \in Slots |-> [filename |-> NullName, chunk |-> NULL]]]
    /\ custom_music = [format |-> "?", dst_format |-> "?", stream |-> NULL]
    /\ nMusic = 0 /\ liveMusic = {}
    /\ nChunks = 0 /\ liveChunks = {} /\ playing = {}
    /\ musicHook = NO_HOOK
    /\ nStreams = 0 /\ liveStreams = {} /\ streamBytes = 0 /\ mixBuffers = 0
    /\ lastCall = Call("none", 0, 0) /\ calls = {}
    /\ ncalls = 0
    /\ mainPc = "idle" /\ cbPc = "idle" /\ streamUse = "none"
    /\ mouse_data = [x |-> 0, y |-> 0, enabled |-> 0]
    /\ sdlMouse = [x |-> 0, y |-> MaxPos]
    /\ sdlRel = [x |-> 0, y |-> 0]
    /\ winRelative = FALSE
    /\ sysCursor = [x |-> 0, y |-> 0]
    /\ gameMouse = [x |-> 0, y |-> 0]
    /\ scale = 100
    /\ mouseLast = MouseCall("none", 0, 0, 0)
    /\ enterPos = [x |-> 0, y |-> 0]
    /\ enterScale = 100
    /\ mixedArgs = FALSE
    /\ movedSince = [x |-> 0, y |-> 0]
    /\ firstPoll = FALSE

\* --- the device, its channels and its music
Open == \E ok \in BOOLEAN : sound_device_open(ok)
Close == sound_device_close
InitChannels ==
    \E n \in NumChannelsInputs, f \in FilenameTables : sound_device_init_channels(n, f)
PlayChannel ==
    \E c \in ChannelInputs, ok \in BOOLEAN : sound_device_play_channel(c, ok)
PlayChannelPanned ==
    \E c \in ChannelInputs, ok \in BOOLEAN : sound_device_play_channel_panned(c, ok)
PlayFileOnChannel ==
    \E f \in FileNames, c \in ChannelInputs, ok \in BOOLEAN :
        sound_device_play_file_on_channel(f, c, ok)
StopChannel == \E c \in ChannelInputs : sound_device_stop_channel(c)
PlayMusic ==
    \E f \in {NullName, "a"}, loadOk \in BOOLEAN, playOk \in BOOLEAN :
        sound_device_play_music(f, loadOk, playOk)
StopMusic == sound_device_stop_music
IsChannelPlaying == \E c \in ChannelInputs : sound_device_is_channel_playing(c)
SetMusicVolume == sound_device_set_music_volume
SetChannelVolume == \E c \in ChannelInputs : sound_device_set_channel_volume(c)

\* A step that is not counted, and a step counted against MaxCalls.
Plain(A) == A /\ UNCHANGED ncalls
Counted(A) == ncalls < MaxCalls /\ A /\ ncalls' = ncalls + 1

\* --- the channel table: the calls that load, play and free chunks
NextChannels ==
    \/ Plain(Open) \/ Plain(Close) \/ Plain(InitChannels)
    \/ Plain(PlayChannel) \/ Plain(PlayChannelPanned)
    \/ Plain(PlayFileOnChannel) \/ Plain(StopChannel)

SpecChannels == Init /\ [][NextChannels]_vars

\* --- the music handle
NextMusic == Plain(Open) \/ Plain(Close) \/ Plain(PlayMusic) \/ Plain(StopMusic)

SpecMusic == Init /\ [][NextMusic]_vars

\* --- the custom music player, one public call or one callback per step
UseCustomMusicPlayer ==
    \E b \in BitdepthInputs, hasData \in BOOLEAN, len \in LenInputs,
       f \in DeviceFormats, ok \in BOOLEAN :
        sound_device_use_custom_music_player(b, hasData, len, f, ok)
WriteCustomMusicData ==
    \E hasData \in BOOLEAN, len \in LenInputs :
        sound_device_write_custom_music_data(hasData, len)
UseDefaultMusicPlayer == sound_device_use_default_music_player
MusicCallback ==
    \E len \in MixLenInputs :
        \E got \in StreamReads(len, streamBytes) : custom_music_callback(TRUE, len, got)

NextCustom ==
    \/ Plain(Open) \/ Plain(Close)
    \/ Plain(UseCustomMusicPlayer) \/ Plain(WriteCustomMusicData)
    \/ Plain(UseDefaultMusicPlayer)
    \/ Plain(MusicCallback)

SpecCustom == Init /\ [][NextCustom]_vars

\* --- every public operation of sound_device.c, in every order, up to
\* MaxCalls calls
NextDevice ==
    \/ Counted(Open) \/ Counted(Close) \/ Counted(InitChannels)
    \/ Counted(PlayChannel) \/ Counted(PlayChannelPanned)
    \/ Counted(PlayFileOnChannel) \/ Counted(StopChannel)
    \/ Counted(PlayMusic) \/ Counted(StopMusic)
    \/ Counted(IsChannelPlaying) \/ Counted(SetMusicVolume)
    \/ Counted(SetChannelVolume)
    \/ Counted(UseCustomMusicPlayer) \/ Counted(WriteCustomMusicData)
    \/ Counted(UseDefaultMusicPlayer)

SpecDevice == Init /\ [][NextDevice]_vars

\* --- the custom music player with the audio thread interleaved
MainUseCustom == \E b \in BitdepthInputs : UseCustomBegin(b)
MainCreate == \E f \in DeviceFormats, ok \in BOOLEAN : CreateStep(f, ok)
MainWrite == \E hasData \in BOOLEAN, len \in LenInputs : WriteStep(hasData, len)
AudioGet ==
    \E len \in MixLenInputs :
        \E got \in StreamReads(len, streamBytes) : CallbackGet(len, got)

NextThreads ==
    \/ Plain(MainUseCustom) \/ Plain(DestroyStep) \/ Plain(ClearStep)
    \/ Plain(MainCreate) \/ Plain(MainWrite) \/ Plain(HookStep)
    \/ Plain(UseDefaultBegin)
    \/ Plain(CallbackBegin) \/ Plain(AudioGet)

SpecThreads == Init /\ [][NextThreads]_vars

\* --- the mouse
GetRelativeState ==
    \E hasX \in BOOLEAN, hasY \in BOOLEAN : system_mouse_get_relative_state(hasX, hasY)
SetRelativeMode == \E e \in EnabledInputs : system_mouse_set_relative_mode(e)
MoveMouseCursor == \E d \in CursorDeltas : system_move_mouse_cursor(d[1], d[2])
Motion == \E d \in Motions : MouseMotion(d)
ScaleChange == \E s \in Scales : SetScale(s)

NextMouse ==
    \/ Plain(GetRelativeState) \/ Plain(SetRelativeMode)
    \/ Plain(MoveMouseCursor) \/ Plain(Motion) \/ Plain(ScaleChange)

SpecMouse == Init /\ [][NextMouse]_vars

(***************************************************************************)
(* Properties                                                              *)
(***************************************************************************)

\* C1: at most one music object is loaded and not freed, and it is the one
\* data.music references; no music object leaves data.music unfreed.
C1_SingleMusicHandle ==
    liveMusic = (IF data.music = NULL THEN {} ELSE {data.music})

\* C2: at most one custom audio stream exists undestroyed, it is the one
\* custom_music.stream references, and after
\* sound_device_use_default_music_player none exists.
C2_SingleCustomStream ==
    /\ Cardinality(liveStreams) <= 1
    /\ liveStreams = (IF custom_music.stream = NULL THEN {} ELSE {custom_music.stream})
    /\ lastCall.op = "use_default_music_player"
         => liveStreams = {} /\ custom_music.stream = NULL

\* A second stream has replaced the first one.
C2_Witness ==
    /\ nStreams = 2
    /\ custom_music.stream = 2
    /\ liveStreams = {2}

\* C3: sound_device_init_channels on an initialized device asks the mixer
\* for min(num_channels, 150) channels and assigns exactly the table slots
\* 0 <= i < min(num_channels, 150), all of them inside the table.
C3_InitChannelsBounded ==
    (lastCall.op = "init_channels" /\ data.initialized # 0)
      => /\ lastCall.alloc = Min(lastCall.arg, 150)
         /\ lastCall.written = {i \in Slots : i < Min(lastCall.arg, 150)}
         /\ \A i \in lastCall.written : 0 <= i /\ i < 150

\* sound_device_init_channels was given more channels than the table holds.
C3_Witness ==
    /\ lastCall.op = "init_channels"
    /\ data.initialized # 0
    /\ lastCall.arg = MAX_CHANNELS + 1
    /\ lastCall.written = Slots

\* C4: the music hook is custom_music_callback only if a custom audio stream
\* exists.
C4_HookOnlyWithStream ==
    musicHook = CUSTOM_CALLBACK => custom_music.stream # NULL

\* C5: the first delta read with system_mouse_get_relative_state after
\* relative mode was enabled is the motion since the enabling call.
C5_FirstDeltaSinceEnable ==
    (mouseLast.op = "get_relative_state" /\ mouseLast.arg = 1)
      => /\ mouseLast.x = ToInt(mouseLast.moved.x)
         /\ mouseLast.y = ToInt(mouseLast.moved.y)

\* C6: the chunks loaded and not freed are exactly the non-null chunk fields
\* of the channel table.
C6_NoChunkLeak == liveChunks = TableChunks(data)

\* The position the disabling call has to restore: the one SDL reported when
\* relative mode was entered, adjusted by the scale percentage of that moment.
C7_Captured ==
    LET pct == calc_percentage(100, enterScale)
    IN [x |-> calc_adjust_with_percentage(ToInt(enterPos.x), pct),
        y |-> calc_adjust_with_percentage(ToInt(enterPos.y), pct)]

C7_Restored ==
    (/\ mouseLast.op = "set_relative_mode"
     /\ mouseLast.arg = 0
     /\ mouseLast.was # 0
     /\ ~mixedArgs)
      => /\ sysCursor = C7_Captured
         /\ gameMouse = C7_Captured
         /\ ~winRelative

C7_SameModeStep ==
    (mouseLast'.op = "set_relative_mode" /\ mouseLast'.arg = mouseLast'.was)
      => UNCHANGED <<mouse_data, winRelative, sysCursor, gameMouse>>

\* C7: the call that disables relative mode sets the cursor to the position
\* captured by the enabling call, adjusted by the screen scale, whatever
\* reads of the relative state and repeated calls with the same argument came
\* in between; a call whose argument equals the current mode changes neither
\* the saved position, the window's relative mode nor the cursor.
C7_PositionSurvives == []C7_Restored /\ [][C7_SameModeStep]_vars

\* Relative mode was entered at x = 1.0 with the scale at 50%, the pointer
\* moved away, and the disabling call restored (2, 2).
C7_Witness ==
    /\ mouseLast.op = "set_relative_mode"
    /\ mouseLast.arg = 0
    /\ mouseLast.was # 0
    /\ ~mixedArgs
    /\ enterScale = 50
    /\ enterPos.x = 2
    /\ sdlMouse.x = 0
    /\ sysCursor = [x |-> 2, y |-> 2]

\* C8: the stream is destroyed only while the hook is not installed, and the
\* callback never reads from a destroyed stream.
C8_NoUseOfDestroyedStream ==
    /\ streamUse # "destroyed"
    /\ mainPc \in {"create_clear", "default_clear"} => musicHook # CUSTOM_CALLBACK

\* The mixer calls that play, load, hook or allocate.
EffectfulCalls ==
    {"Mix_PlayChannel", "Mix_PlayMusic", "Mix_LoadWAV", "Mix_LoadMUS",
     "Mix_HookMusic", "Mix_AllocateChannels"}

C9_ClosedStep ==
    (data.initialized = 0 /\ lastCall'.op # "open")
      => /\ calls' \cap EffectfulCalls = {}
         /\ data'.music = data.music
         /\ data'.channels = data.channels
         /\ custom_music'.stream = custom_music.stream
         /\ lastCall'.op = "play_music" => lastCall'.ret = 0

\* C9: while the device is not initialized, every public operation other
\* than sound_device_open makes no mixer call that plays, loads, hooks or
\* allocates, leaves the music handle, the channel table and the custom
\* stream unchanged, and sound_device_play_music returns 0.
C9_NoOpWhenNotInitialized == [][C9_ClosedStep]_vars

\* C10: every mix buffer get_custom_audio_stream allocates is freed before
\* it returns, and the destination is filled with silence only for a
\* positive len.
C10_MixBufferFreed ==
    /\ mixBuffers = 0
    /\ (lastCall.op = CUSTOM_CALLBACK /\ "memset" \in calls) => lastCall.arg > 0

====
